---------------------------- MODULE Spec2Model ----------------------------
(***************************************************************************)
(* Model of src/packagedcode/conda.py: the crude Jinja resolution of a     *)
(* conda meta.yaml (get_variables, get_meta_yaml_data), the parsing of the *)
(* recipe requirements (CondaMetaYamlHandler.parse) and of the dependency  *)
(* list of a conda environment file (get_conda_yaml_dependencies).         *)
(*                                                                         *)
(* A Python str is a sequence of one-character strings, so that strip,     *)
(* split, replace, partition and the `in` test work on characters as the   *)
(* code's do.  None is the one-element sequence NoneVal, which is not a    *)
(* sequence of characters.                                                 *)
(***************************************************************************)
EXTENDS Integers, Sequences, FiniteSets, TLC

VARIABLES
    pc,                  \* which call has been made on the input of this run
    text,                \* the content of the meta.yaml file
    variables,           \* the dict returned by get_variables, in insertion order
    cleaned,             \* the text get_meta_yaml_data hands to saneyaml.load
    again,               \* the resolution loop applied to `cleaned`, same dict
    requirements,        \* metayaml['requirements'] as (scope, reqs) items
    conda_dependencies,  \* conda_data['dependencies']
    dependencies,        \* the DependentPackage list built by the parser
    extra_data,          \* extra_data of CondaMetaYamlHandler.parse
    raised               \* the exception that ended the call, or NoneVal

vars == <<pc, text, variables, cleaned, again, requirements,
          conda_dependencies, dependencies, extra_data, raised>>

\* Bounds of the inputs.
MaxLines == 3
MaxReqs == 2
MaxDeps == 2

NoneVal == <<"<None>">>

(***************************************************************************)
(* Python str methods.                                                     *)
(***************************************************************************)
Whitespace == {" ", "\n", "\t"}

StartsWith(s, p) == Len(s) >= Len(p) /\ SubSeq(s, 1, Len(p)) = p

EndsWith(s, p) == Len(s) >= Len(p) /\ SubSeq(s, Len(s) - Len(p) + 1, Len(s)) = p

\* str.find, 1-based; 0 when p does not occur in s.
Find(s, p) ==
    LET idx == {i \in 1..(Len(s) - Len(p) + 1) : SubSeq(s, i, i + Len(p) - 1) = p}
    IN IF idx = {} THEN 0 ELSE CHOOSE i \in idx : \A j \in idx : i <= j

\* p in s
Contains(s, p) == Find(s, p) # 0

RECURSIVE LStripChars(_, _)
LStripChars(s, chars) ==
    IF s # <<>> /\ Head(s) \in chars THEN LStripChars(Tail(s), chars) ELSE s

RECURSIVE RStripChars(_, _)
RStripChars(s, chars) ==
    IF s # <<>> /\ s[Len(s)] \in chars
    THEN RStripChars(SubSeq(s, 1, Len(s) - 1), chars)
    ELSE s

StripChars(s, chars) == RStripChars(LStripChars(s, chars), chars)

Strip(s) == StripChars(s, Whitespace)

RECURSIVE Split(_, _)
Split(s, sep) ==
    LET i == Find(s, sep)
    IN IF i = 0 THEN <<s>>
       ELSE <<SubSeq(s, 1, i - 1)>> \o Split(SubSeq(s, i + Len(sep), Len(s)), sep)

RECURSIVE Replace(_, _, _)
Replace(s, old, new) ==
    LET i == Find(s, old)
    IN IF i = 0 THEN s
       ELSE SubSeq(s, 1, i - 1) \o new
            \o Replace(SubSeq(s, i + Len(old), Len(s)), old, new)

Partition(s, sep) ==
    LET i == Find(s, sep)
    IN IF i = 0 THEN <<s, <<>>, <<>>>>
       ELSE <<SubSeq(s, 1, i - 1), sep, SubSeq(s, i + Len(sep), Len(s))>>

LowerChar(c) ==
    CASE c = "X" -> "x"
      [] c = "P" -> "p"
      [] OTHER -> c

Lower(s) == [i \in 1..Len(s) |-> LowerChar(s[i])]

\* Iterating a text file: the lines, each with its line end.
RECURSIVE Lines(_)
Lines(t) ==
    LET i == Find(t, <<"\n">>)
    IN IF t = <<>> THEN <<>>
       ELSE IF i = 0 THEN <<t>>
       ELSE <<SubSeq(t, 1, i)>> \o Lines(SubSeq(t, i + 1, Len(t)))

\* ''.join(lines)
RECURSIVE Join(_)
Join(lines) == IF lines = <<>> THEN <<>> ELSE Head(lines) \o Join(Tail(lines))

(***************************************************************************)
(* A dict as the sequence of its items in insertion order.                 *)
(***************************************************************************)
DictKeys(d) == {d[i].key : i \in 1..Len(d)}

DictGet(d, k) == LET i == CHOOSE i \in 1..Len(d) : d[i].key = k IN d[i].value

DictSet(d, k, v) ==
    IF k \in DictKeys(d)
    THEN [i \in 1..Len(d) |-> IF d[i].key = k THEN [key |-> k, value |-> v] ELSE d[i]]
    ELSE Append(d, [key |-> k, value |-> v])

(***************************************************************************)
(* get_variables                                                           *)
(***************************************************************************)
OpenStmt == <<"{", "%">>
CloseStmt == <<"%", "}">>
OpenRef == <<"{", "{">>
CloseRef == <<"}", "}">>
Assign == <<"=">>
LowerFilter == <<"|", "l", "o", "w", "e", "r">>

\* The test of lines 291-295 and 333, on the stripped line.
IsDeclaration(pure_line) ==
    /\ StartsWith(pure_line, OpenStmt)
    /\ EndsWith(pure_line, CloseStmt)
    /\ Contains(pure_line, Assign)

\* Lines 334-336: the name and the value taken from one declaration line.
DeclarationParts(line) ==
    LET body == LStripChars(
                    LStripChars(
                        Strip(RStripChars(LStripChars(line, {"{", "%"}), {"%", "}"})),
                        {"s", "e", "t"}),
                    Whitespace)
    IN Split(body, Assign)

DeclarationValue(parts) == StripChars(Strip(parts[Len(parts)]), {"\""})

RECURSIVE CollectVariables(_, _)
CollectVariables(lines, result) ==
    IF lines = <<>> THEN result
    ELSE LET line == Strip(Head(lines))
         IN IF IsDeclaration(line)
            THEN LET parts == DeclarationParts(line)
                 IN CollectVariables(
                        Tail(lines),
                        DictSet(result, Strip(parts[1]), DeclarationValue(parts)))
            ELSE CollectVariables(Tail(lines), result)

get_variables(t) == CollectVariables(Lines(t), <<>>)

(***************************************************************************)
(* get_meta_yaml_data, up to the call of saneyaml.load                     *)
(***************************************************************************)
\* Lines 300-304: the loop over the dict, on one line.
RECURSIVE ReplaceVariables(_, _)
ReplaceVariables(line, items) ==
    IF items = <<>> THEN line
    ELSE LET variable == Head(items).key
             value == Head(items).value
         IN ReplaceVariables(
                IF Contains(line, LowerFilter)
                THEN Replace(line,
                             <<"{", "{", " ">> \o variable \o LowerFilter \o <<" ", "}", "}">>,
                             Lower(value))
                ELSE Replace(line,
                             <<"{", "{", " ">> \o variable \o <<" ", "}", "}">>,
                             value),
                Tail(items))

\* Lines 287-305: the lines appended to yaml_lines.  A line read from a
\* file is never empty, so the test of line 288 never holds.
RECURSIVE YamlLines(_, _)
YamlLines(lines, items) ==
    IF lines = <<>> THEN <<>>
    ELSE LET line == Head(lines)
         IN IF IsDeclaration(Strip(line)) THEN YamlLines(Tail(lines), items)
            ELSE <<IF Contains(line, OpenRef) /\ Contains(line, CloseRef)
                   THEN ReplaceVariables(line, items)
                   ELSE line>> \o YamlLines(Tail(lines), items)

\* The cleanup left out: every line of yaml_lines is kept.
KeepsUnresolved(yaml_lines) == yaml_lines

\* The cleanup with the test of line 299: a line is dropped only when it
\* holds both markers.
KeepsHalfOpen(yaml_lines) ==
    SelectSeq(yaml_lines, LAMBDA line : ~(Contains(line, OpenRef) /\ Contains(line, CloseRef)))

\* Lines 309-313.
CleanedYamlLines(yaml_lines) ==
    SelectSeq(yaml_lines, LAMBDA line : ~Contains(line, OpenRef))

\* Lines 285-315: the resolution of the lines of a file with a dict of variables.
ResolveLines(lines, items) == Join(CleanedYamlLines(YamlLines(lines, items)))

(***************************************************************************)
(* The collaborators: packageurl.PackageURL and                            *)
(* dparse2.parser.parse_requirement_line, as far as the parsers use them.  *)
(***************************************************************************)
Letters == {"a", "b", "c", "d", "e", "f", "g", "h", "i", "j", "k", "l", "m",
            "n", "o", "p", "q", "r", "s", "t", "u", "v", "w", "x", "y", "z",
            "X", "P"}
Digits == {"0", "1", "2", "3", "4", "5", "6", "7", "8", "9"}
NameChars == Letters \cup Digits \cup {"-", "_", "."}
VersionChars == Letters \cup Digits \cup {".", "*"}
SpecifierOps == {<<"=", "=">>, <<">", "=">>}

\* The length of the longest prefix of s made of chars.
RECURSIVE PrefixLen(_, _)
PrefixLen(s, chars) ==
    IF s # <<>> /\ Head(s) \in chars THEN 1 + PrefixLen(Tail(s), chars) ELSE 0

\* parse_requirement_line(line): a name, then at most one specifier
\* (operator and version); `matched` is FALSE where it returns None.
\* specs is str(req.specs).
parse_requirement_line(line) ==
    LET n == PrefixLen(line, NameChars)
        rest == LStripChars(SubSeq(line, n + 1, Len(line)), Whitespace)
        op == SubSeq(rest, 1, 2)
        version == LStripChars(SubSeq(rest, 3, Len(rest)), Whitespace)
        none == [matched |-> FALSE, name |-> <<>>, specs |-> <<>>]
    IN IF n = 0 THEN none
       ELSE IF rest = <<>>
       THEN [matched |-> TRUE, name |-> SubSeq(line, 1, n), specs |-> <<>>]
       ELSE IF /\ Len(rest) > 2
               /\ op \in SpecifierOps
               /\ version # <<>>
               /\ PrefixLen(version, VersionChars) = Len(version)
       THEN [matched |-> TRUE, name |-> SubSeq(line, 1, n), specs |-> op \o version]
       ELSE none

\* PackageURL(type, namespace, name, version): the components as the
\* constructor normalizes them (an empty component is None, a pypi name is
\* lower-cased with "_" replaced by "-"); to_string() writes these
\* components, and the record stands for the string.  The constructor's
\* refusal of an empty name is left out: no input below has one.
PackageURL(type, namespace, name, version) ==
    [type |-> type,
     namespace |-> IF namespace = <<>> THEN NoneVal ELSE namespace,
     name |-> IF type = "pypi" THEN Replace(Lower(name), <<"_">>, <<"-">>) ELSE name,
     version |-> IF version = <<>> THEN NoneVal ELSE version]

DependentPackage(purl, extracted_requirement, scope, is_runtime, is_optional, is_pinned, is_direct) ==
    [purl |-> purl,
     extracted_requirement |-> extracted_requirement,
     scope |-> scope,
     is_runtime |-> is_runtime,
     is_optional |-> is_optional,
     is_pinned |-> is_pinned,
     is_direct |-> is_direct]

ValueError == <<"ValueError">>
UnboundLocalError == <<"UnboundLocalError">>
Unbound == <<"<unbound>">>

NamespaceSep == <<":", ":">>
DoubleEq == <<"=", "=">>
Pip == <<"p", "i", "p">>
Python == <<"p", "y", "t", "h", "o", "n">>
Run == <<"r", "u", "n">>
DependenciesScope == <<"d", "e", "p", "e", "n", "d", "e", "n", "c", "i", "e", "s">>

(***************************************************************************)
(* CondaMetaYamlHandler.parse: the loop over metayaml['requirements']      *)
(***************************************************************************)
\* The scope compared with "run" instead of searched for it.
ScopeNamedRun(scope) == scope = Run

\* Line 158: "run" in scope
IsRuntimeScope(scope) == Contains(scope, Run)

\* Lines 128-175: one requirement of one scope.  acc holds the locals
\* dependencies and extra_data, and the exception raised, if any.
ParseRequirement(scope, req, acc) ==
    LET p == Partition(req, <<" ">>)
        requirement0 == p[3]
        has_eqeq == StartsWith(requirement0, DoubleEq)
        vparts == Split(requirement0, DoubleEq)
        version0 == IF has_eqeq THEN vparts[2] ELSE NoneVal
        has_ns == Contains(p[1], NamespaceSep)
        nparts == Split(p[1], NamespaceSep)
        namespace == IF has_ns THEN nparts[1] ELSE NoneVal
        name1 == IF has_ns THEN nparts[2] ELSE p[1]
        has_eq == Contains(name1, Assign)
        eparts == Split(name1, Assign)
        name == IF has_eq THEN eparts[1] ELSE name1
        version == IF has_eq THEN eparts[2] ELSE version0
        is_pinned == has_eq
        requirement == IF has_eq THEN <<"=">> \o version ELSE requirement0
    IN IF has_eqeq /\ Len(vparts) # 2 THEN [acc EXCEPT !.raised = ValueError]
       ELSE IF has_ns /\ Len(nparts) # 2 THEN [acc EXCEPT !.raised = ValueError]
       ELSE IF has_eq /\ Len(eparts) # 2 THEN [acc EXCEPT !.raised = ValueError]
       ELSE IF name \in {Pip, Python}
       THEN [acc EXCEPT !.extra_data =
                DictSet(@, scope,
                        IF scope \in DictKeys(@)
                        THEN Append(DictGet(@, scope), req)
                        ELSE <<req>>)]
       ELSE [acc EXCEPT !.dependencies =
                Append(@, DependentPackage(
                              PackageURL("conda", namespace, name, version),
                              requirement,
                              scope,
                              IsRuntimeScope(scope),
                              ~IsRuntimeScope(scope),
                              is_pinned,
                              TRUE))]

RECURSIVE ParseScope(_, _, _)
ParseScope(scope, reqs, acc) ==
    IF reqs = <<>> \/ acc.raised # NoneVal THEN acc
    ELSE ParseScope(scope, Tail(reqs), ParseRequirement(scope, Head(reqs), acc))

\* Lines 119-175: for scope, reqs in requirements.items()
RECURSIVE ParseRequirements(_, _)
ParseRequirements(items, acc) ==
    IF items = <<>> \/ acc.raised # NoneVal THEN acc
    ELSE ParseRequirements(Tail(items),
                           ParseScope(Head(items).key, Head(items).value, acc))

(***************************************************************************)
(* get_conda_yaml_dependencies                                             *)
(***************************************************************************)
\* Lines 214-221 and 254-261: the pypi package of a parsed requirement line.
PypiDependency(req) ==
    LET is_pinned == Contains(req.specs, DoubleEq)
        version == IF is_pinned THEN Replace(req.specs, DoubleEq, <<>>) ELSE NoneVal
    IN [version |-> version,
        package |-> DependentPackage(
                        PackageURL("pypi", NoneVal, req.name, version),
                        req.specs, DependenciesScope, TRUE, FALSE, is_pinned, TRUE)]

\* Lines 203-248: a str item.  acc holds deps, the local `version`, which
\* an iteration may read before it has set it, and the exception raised.
StringDependency(dep0, acc) ==
    LET has_ns == Contains(dep0, NamespaceSep)
        nparts == Split(dep0, NamespaceSep)
        namespace == IF has_ns /\ ~(Contains(nparts[1], <<"/">>) \/ Contains(nparts[1], <<":">>))
                     THEN nparts[1]
                     ELSE NoneVal
        dep == IF has_ns THEN nparts[2] ELSE dep0
        req == parse_requirement_line(dep)
        pypi == PypiDependency(req)
        has_eq == Contains(dep, Assign)
        eparts == Split(dep, Assign)
        name == IF has_eq THEN eparts[1] ELSE dep
        version == IF has_eq THEN eparts[2] ELSE acc.version
        specs == IF has_eq THEN <<"=">> \o version ELSE NoneVal
        purl == PackageURL("conda", namespace, name, version)
    IN IF has_ns /\ Len(nparts) # 2 THEN [acc EXCEPT !.raised = ValueError]
       ELSE IF req.matched
       THEN [acc EXCEPT !.version = pypi.version,
                        !.deps = IF pypi.package.purl.name \in {Pip, Python}
                                 THEN @ ELSE Append(@, pypi.package)]
       ELSE IF has_eq /\ Len(eparts) # 2 THEN [acc EXCEPT !.raised = ValueError]
       ELSE IF version = Unbound THEN [acc EXCEPT !.raised = UnboundLocalError]
       ELSE [acc EXCEPT !.version = version,
                        !.deps = IF purl.name \in {Pip, Python}
                                 THEN @
                                 ELSE Append(@, DependentPackage(
                                                    purl, specs, DependenciesScope,
                                                    TRUE, FALSE, has_eq, TRUE))]

\* Lines 251-272: the lines of the 'pip' entry of a dict item.
RECURSIVE PipDependencies(_, _)
PipDependencies(lines, acc) ==
    IF lines = <<>> THEN acc
    ELSE LET req == parse_requirement_line(Head(lines))
             pypi == PypiDependency(req)
         IN PipDependencies(
                Tail(lines),
                IF req.matched
                THEN [acc EXCEPT !.version = pypi.version,
                                 !.deps = Append(@, pypi.package)]
                ELSE acc)

\* Lines 201-274: for dep in dependencies
RECURSIVE CondaYamlDependencies(_, _)
CondaYamlDependencies(items, acc) ==
    IF items = <<>> \/ acc.raised # NoneVal THEN acc
    ELSE LET dep == Head(items)
         IN CondaYamlDependencies(
                Tail(items),
                IF dep.kind = "str" THEN StringDependency(dep.value, acc)
                ELSE PipDependencies(
                         IF Pip \in DictKeys(dep.value) THEN DictGet(dep.value, Pip) ELSE <<>>,
                         acc))

get_conda_yaml_dependencies(items) ==
    CondaYamlDependencies(items, [deps |-> <<>>, version |-> Unbound, raised |-> NoneVal])

(***************************************************************************)
(* Inputs: the lines a meta.yaml is made of.                               *)
(***************************************************************************)
TemplateLines == {
    \* {% set a = "Xy" %}
    <<"{", "%", " ", "s", "e", "t", " ", "a", " ", "=", " ", "\"", "X", "y", "\"", " ", "%", "}", "\n">>,
    \* {% set b = '1' %}
    <<"{", "%", " ", "s", "e", "t", " ", "b", " ", "=", " ", "'", "1", "'", " ", "%", "}", "\n">>,
    \* {% set c = "p=q" %}
    <<"{", "%", " ", "s", "e", "t", " ", "c", " ", "=", " ", "\"", "p", "=", "q", "\"", " ", "%", "}", "\n">>,
    \* {% set d = {% %}
    <<"{", "%", " ", "s", "e", "t", " ", "d", " ", "=", " ", "{", "%", " ", "%", "}", "\n">>,
    \* {% set e = "{{" %}
    <<"{", "%", " ", "s", "e", "t", " ", "e", " ", "=", " ", "\"", "{", "{", "\"", " ", "%", "}", "\n">>,
    \* v: {{ a }}
    <<"v", ":", " ", "{", "{", " ", "a", " ", "}", "}", "\n">>,
    \* u: {{ a|lower }}-{{ b }}
    <<"u", ":", " ", "{", "{", " ", "a", "|", "l", "o", "w", "e", "r", " ", "}", "}", "-", "{", "{", " ", "b", " ", "}", "}", "\n">>,
    \* {{ d }} if k==1 %}
    <<"{", "{", " ", "d", " ", "}", "}", " ", "i", "f", " ", "k", "=", "=", "1", " ", "%", "}", "\n">>,
    \* w: {{ e }}
    <<"w", ":", " ", "{", "{", " ", "e", " ", "}", "}", "\n">>,
    \* k: 1
    <<"k", ":", " ", "1", "\n">>,
    \* {% if x %}
    <<"{", "%", " ", "i", "f", " ", "x", " ", "%", "}", "\n">>,
    \* {% if x == 1 %}
    <<"{", "%", " ", "i", "f", " ", "x", " ", "=", "=", " ", "1", " ", "%", "}", "\n">>
}

SeqsUpTo(S, n) == UNION {[1..k -> S] : k \in 0..n}

Texts == {Join(ls) : ls \in SeqsUpTo(TemplateLines, MaxLines)}

(***************************************************************************)
(* Inputs: the requirements of a recipe and the dependencies of an         *)
(* environment file, as saneyaml.load returns them.                        *)
(***************************************************************************)
Scopes == {
    Run,
    <<"b", "u", "i", "l", "d">>,
    <<"r", "u", "n", "_", "c", "o", "n", "s", "t", "r", "a", "i", "n", "e", "d">>
}

RecipeTokens == {
    <<"n", "u", "m", "p", "y">>,
    <<"p", "a", "n", "d", "a", "s", " ", ">", "=", "1", ".", "0">>,
    \* conda-forge::numpy=1.15.4
    <<"c", "o", "n", "d", "a", "-", "f", "o", "r", "g", "e", ":", ":", "n", "u", "m", "p", "y", "=", "1", ".", "1", "5", ".", "4">>,
    <<"p", "y", "t", "h", "o", "n", " ", ">", "=", "3", ".", "6">>,
    Pip,
    <<"n", "u", "m", "p", "y", "=">>,
    \* a::b::numpy
    <<"a", ":", ":", "b", ":", ":", "n", "u", "m", "p", "y">>,
    \* numpy=1.5=py3
    <<"n", "u", "m", "p", "y", "=", "1", ".", "5", "=", "p", "y", "3">>,
    <<"m", "c", "c", "o", "r", "t", "e", "x", " ", "=", "=", "1", ".", "0">>,
    <<"n", "u", "m", "p", "y", "=", "=", "1", ".", "0">>
}

\* The dict built from (scope, req) pairs: a scope's reqs in the order given.
RECURSIVE RequirementsOf(_, _)
RequirementsOf(pairs, d) ==
    IF pairs = <<>> THEN d
    ELSE LET scope == Head(pairs)[1]
             req == Head(pairs)[2]
         IN RequirementsOf(
                Tail(pairs),
                DictSet(d, scope,
                        IF scope \in DictKeys(d) THEN Append(DictGet(d, scope), req)
                        ELSE <<req>>))

RequirementMaps ==
    {RequirementsOf(pairs, <<>>) : pairs \in SeqsUpTo(Scopes \X RecipeTokens, MaxReqs)}

StrItem(s) == [kind |-> "str", value |-> s]
DictItem(key, lines) == [kind |-> "dict", value |-> <<[key |-> key, value |-> lines]>>]

EnvironmentItems == {
    StrItem(<<"n", "u", "m", "p", "y">>),
    StrItem(<<"p", "y", "t", "h", "o", "n", " ", ">", "=", "3", ".", "6">>),
    StrItem(Pip),
    StrItem(<<"c", "o", "n", "d", "a", "-", "f", "o", "r", "g", "e", ":", ":", "n", "u", "m", "p", "y", "=", "1", ".", "1", "5", ".", "4">>),
    StrItem(<<"c", "/", "d", ":", ":", "n", "u", "m", "p", "y">>),
    StrItem(<<"n", "u", "m", "p", "y", "=", "=", "1", ".", "0">>),
    StrItem(<<"n", "u", "m", "p", "y", "=">>),
    StrItem(<<"n", "u", "m", "p", "y", "=", "1", ".", "5", "=", "p", "y", "3">>),
    StrItem(<<"n", "u", "m", "p", "y", " ", "1", ".", "0">>),
    StrItem(<<"p", "y", "t", "h", "o", "n", "=", "3", ".", "8">>),
    DictItem(Pip, <<<<"p", "i", "p", "=", "=", "2", "0", ".", "0">>>>),
    DictItem(Pip, <<<<"r", "e", "q", "u", "e", "s", "t", "s">>, <<"n", "u", "m", "p", "y", "=", "1", ".", "0">>>>),
    DictItem(<<"c", "o", "n", "d", "a">>, <<<<"n", "u", "m", "p", "y">>>>)
}

DependencyLists == SeqsUpTo(EnvironmentItems, MaxDeps)

(***************************************************************************)
(* The state machine.  A run takes one input: the text of a meta.yaml, the *)
(* requirements of a loaded meta.yaml, or the dependencies of a loaded     *)
(* environment file.                                                       *)
(***************************************************************************)
Init ==
    /\ variables = <<>>
    /\ cleaned = <<>>
    /\ again = <<>>
    /\ dependencies = <<>>
    /\ extra_data = <<>>
    /\ raised = NoneVal
    /\ \/ /\ pc = "meta_yaml"
          /\ text \in Texts
          /\ requirements = <<>>
          /\ conda_dependencies = <<>>
       \/ /\ pc = "requirements"
          /\ text = <<>>
          /\ requirements \in RequirementMaps
          /\ conda_dependencies = <<>>
       \/ /\ pc = "conda_yaml"
          /\ text = <<>>
          /\ requirements = <<>>
          /\ conda_dependencies \in DependencyLists

\* A call of get_variables on the file.
GetVariables ==
    /\ pc = "meta_yaml"
    /\ pc' = "extracted"
    /\ variables' = get_variables(text)
    /\ UNCHANGED <<text, cleaned, again, requirements, conda_dependencies,
                   dependencies, extra_data, raised>>

\* A call of get_meta_yaml_data on the file, up to saneyaml.load.
GetMetaYamlData ==
    /\ pc \in {"meta_yaml", "extracted"}
    /\ pc' = "resolved"
    /\ variables' = get_variables(text)
    /\ cleaned' = ResolveLines(Lines(text), get_variables(text))
    /\ UNCHANGED <<text, again, requirements, conda_dependencies,
                   dependencies, extra_data, raised>>

\* The resolution applied to its own output, with the same dict.
ResolveAgain ==
    /\ pc = "resolved"
    /\ pc' = "resolved_again"
    /\ again' = ResolveLines(Lines(cleaned), variables)
    /\ UNCHANGED <<text, variables, cleaned, requirements, conda_dependencies,
                   dependencies, extra_data, raised>>

\* CondaMetaYamlHandler.parse on the requirements: the package data it
\* yields, or the exception that ends it before anything is yielded.
ParseMetaYaml ==
    /\ pc = "requirements"
    /\ pc' = "parsed"
    /\ LET acc == ParseRequirements(
                      requirements,
                      [dependencies |-> <<>>, extra_data |-> <<>>, raised |-> NoneVal])
       IN /\ raised' = acc.raised
          /\ dependencies' = IF acc.raised = NoneVal THEN acc.dependencies ELSE <<>>
          /\ extra_data' = IF acc.raised = NoneVal THEN acc.extra_data ELSE <<>>
    /\ UNCHANGED <<text, variables, cleaned, again, requirements, conda_dependencies>>

\* get_conda_yaml_dependencies on the dependencies of an environment file.
GetCondaYamlDependencies ==
    /\ pc = "conda_yaml"
    /\ pc' = "listed"
    /\ LET acc == get_conda_yaml_dependencies(conda_dependencies)
       IN /\ raised' = acc.raised
          /\ dependencies' = IF acc.raised = NoneVal THEN acc.deps ELSE <<>>
    /\ UNCHANGED <<text, variables, cleaned, again, requirements, conda_dependencies,
                   extra_data>>

Next ==
    \/ GetVariables
    \/ GetMetaYamlData
    \/ ResolveAgain
    \/ ParseMetaYaml
    \/ GetCondaYamlDependencies

Spec == Init /\ [][Next]_vars

(***************************************************************************)
(* What the properties below read off a state.                             *)
(***************************************************************************)
InputLines == Lines(text)
CleanedLines == Lines(cleaned)
LinesOf(ls) == {ls[i] : i \in 1..Len(ls)}
Resolved == pc \in {"resolved", "resolved_again"}

QuoteChars == {"\"", "'"}
SetKeyword == <<"s", "e", "t">>

\* A declaration line read as the statement it is: the text between the
\* markers, without the keyword `set`; the name before the first `=`, the
\* value after it.
DeclaredBody(line) ==
    LET pure == Strip(line)
        inner == Strip(SubSeq(pure, 3, Len(pure) - 2))
    IN IF StartsWith(inner, SetKeyword \o <<" ">>)
       THEN Strip(SubSeq(inner, 4, Len(inner)))
       ELSE inner
DeclaredName(line) == Strip(Partition(DeclaredBody(line), Assign)[1])
DeclaredValue(line) == Strip(Partition(DeclaredBody(line), Assign)[3])
HasSetKeyword(line) ==
    LET pure == Strip(line)
    IN StartsWith(Strip(SubSeq(pure, 3, Len(pure) - 2)), SetKeyword \o <<" ">>)

Declarations == SelectSeq(InputLines, LAMBDA line : IsDeclaration(Strip(line)))
DistinctNames ==
    \A i, j \in 1..Len(Declarations) :
        i # j => DeclaredName(Declarations[i]) # DeclaredName(Declarations[j])

PlainRef(name) == <<"{", "{", " ">> \o name \o <<" ", "}", "}">>
LowerRef(name) == <<"{", "{", " ">> \o name \o LowerFilter \o <<" ", "}", "}">>

\* Every reference of the line replaced on its own terms.
RECURSIVE EachReplaced(_, _)
EachReplaced(line, items) ==
    IF items = <<>> THEN line
    ELSE EachReplaced(
             Replace(Replace(line, LowerRef(Head(items).key), Lower(Head(items).value)),
                     PlainRef(Head(items).key), Head(items).value),
             Tail(items))

RECURSIVE SumLen(_)
SumLen(items) == IF items = <<>> THEN 0 ELSE Len(Head(items).value) + SumLen(Tail(items))

\* C1: the text handed to the YAML loader has no line that contains the
\* opening reference marker `{{`, whatever the substituted values hold.
C1_NoOpenMarker ==
    Resolved => \A i \in 1..Len(CleanedLines) : ~Contains(CleanedLines[i], OpenRef)

\* C1, its case: a reference to a variable whose value holds `{{` was
\* substituted, and other lines of the file went through.
C1_Witness ==
    /\ pc = "resolved"
    /\ cleaned # <<>>
    /\ \E i \in 1..Len(variables) :
          /\ Contains(variables[i].value, OpenRef)
          /\ \E line \in LinesOf(InputLines) :
                /\ ~IsDeclaration(Strip(line))
                /\ Contains(line, PlainRef(variables[i].key))

\* C2: with N declaration lines of pairwise distinct names, get_variables
\* returns N entries, one per declared name, and no value keeps a
\* surrounding quote character.
C2_OneEntryPerDeclaration ==
    (pc = "extracted" /\ DistinctNames) =>
        /\ Len(variables) = Len(Declarations)
        /\ DictKeys(variables) = {DeclaredName(line) : line \in LinesOf(Declarations)}
        /\ \A i \in 1..Len(variables) :
              LET value == variables[i].value
              IN value # <<>> =>
                    /\ Head(value) \notin QuoteChars
                    /\ value[Len(value)] \notin QuoteChars

\* C3: no dependency either parser returns is named `pip` or `python`.
C3_NoReservedName ==
    pc \in {"parsed", "listed"} =>
        \A i \in 1..Len(dependencies) : dependencies[i].purl.name \notin {Pip, Python}

\* C4: a dependency of the recipe requirements is direct, and is runtime
\* and not optional exactly when the name of its scope contains `run`.
C4_ScopeClassification ==
    pc = "parsed" =>
        \A i \in 1..Len(dependencies) :
            LET d == dependencies[i]
            IN /\ d.is_direct
               /\ d.is_runtime <=> Contains(d.scope, Run)
               /\ d.is_optional <=> ~Contains(d.scope, Run)

\* C4, its case: one parse returned a dependency of a scope that contains
\* `run` without being `run`, and one of a scope that does not.
C4_Witness ==
    /\ pc = "parsed"
    /\ \E i, j \in 1..Len(dependencies) :
          /\ Contains(dependencies[i].scope, Run)
          /\ dependencies[i].scope # Run
          /\ dependencies[i].is_runtime
          /\ ~Contains(dependencies[j].scope, Run)
          /\ dependencies[j].is_optional

\* C5: a dependency returned as pinned has a version in its purl, or a
\* requirement `=version` with a version that is not empty.
C5_PinnedHasVersion ==
    pc \in {"parsed", "listed"} =>
        \A i \in 1..Len(dependencies) :
            LET d == dependencies[i]
            IN d.is_pinned =>
                  \/ d.purl.version \notin {NoneVal, <<>>}
                  \/ /\ StartsWith(d.extracted_requirement, Assign)
                     /\ Len(d.extracted_requirement) > 1

C7_EachReferenceReplaced ==
    pc = "resolved" =>
        \A line \in LinesOf(InputLines) : \A a, b \in DictKeys(variables) :
            (/\ ~IsDeclaration(Strip(line))
             /\ Contains(line, LowerRef(a))
             /\ Contains(line, PlainRef(b)))
            => EachReplaced(line, variables) \in LinesOf(CleanedLines)

\* C8: no `{% ... %}` line of the file, with or without an `=`, is in the
\* text handed to the YAML loader.
C8_NoStatementLine ==
    pc = "resolved" =>
        \A line \in LinesOf(InputLines) :
            (StartsWith(Strip(line), OpenStmt) /\ EndsWith(Strip(line), CloseStmt))
            => line \notin LinesOf(CleanedLines)

\* C9: a `{% set n = v %}` line whose value holds `=`, and which no later
\* line redeclares, gives n the whole of v, trimmed and without quotes.
C9_SplitOnFirstAssign ==
    pc = "extracted" =>
        \A i \in 1..Len(Declarations) :
            LET line == Declarations[i]
            IN (/\ HasSetKeyword(line)
                /\ Contains(DeclaredValue(line), Assign)
                /\ \A j \in (i + 1)..Len(Declarations) :
                      DeclaredName(Declarations[j]) # DeclaredName(line))
               => /\ DeclaredName(line) \in DictKeys(variables)
                  /\ DictGet(variables, DeclaredName(line))
                       = StripChars(DeclaredValue(line), QuoteChars)

\* C10: the parse of the recipe requirements raises nothing, and returns
\* one dependency or one extra_data entry for each requirement.
C10_NeverRaises ==
    pc = "parsed" =>
        /\ raised = NoneVal
        /\ Len(dependencies) + SumLen(extra_data) = SumLen(requirements)

=============================================================================
